---- MODULE Spec2Model ----
(***************************************************************************)
(* Model of the JIRA facade: the token-bucket RateLimiter, the             *)
(* rate_limited wrapper JiraClient installs around its methods, the        *)
(* operation handlers, and the projection done by search_issues.           *)
(*                                                                         *)
(* Arithmetic.  The limiter computes with real numbers.  The model keeps   *)
(* them exact by a change of units that is fixed once calls and period are *)
(* chosen:  time is counted in ticks of 1/calls second, tokens in units of *)
(* 1/period token.  Then                                                   *)
(*    one token                      = period units                        *)
(*    a full bucket (calls tokens)   = calls * period units                *)
(*    seconds * (calls / period)     = 1 unit per tick                     *)
(*    (period / calls) * (1 - tokens) seconds = period - units   ticks     *)
(***************************************************************************)
EXTENDS Integers, Sequences, FiniteSets, TLC

VARIABLES
    config,     \* JiraConfig: rate_limit_calls, rate_limit_period, credentials present
    now,        \* the wall clock, datetime.now(), in ticks
    bucket,     \* one RateLimiter used directly (SpecLimiter, SpecConc)
    acqLog,     \* results of the acquire() calls made on bucket, oldest first
    limiter,    \* the RateLimiter behind each wrapped method of one JiraClient
    gate,       \* the rate_limited wrapper invocation in progress on that client
    performed,  \* per method, how many times the wrapped function was invoked
    granted,    \* per method, how many acquire() calls returned 0
    threads,    \* per thread, its position in acquire() and its locals (SpecConc)
    handlerLog, \* per handler invocation that reached acquire(): what it saw
    response,   \* what the last operation handler returned
    searchIn,   \* a search: the fields asked for and what the transport answers
    searchOut,  \* what JiraClient.search_issues returned for it
    effects,    \* what the last operation did on the way, in order: acquire,
                \* connect and the calls made on the remote service
    cloneIn,    \* a clone: the arguments, the source issue, the remote outcomes
    cloneOut,   \* what JiraClient.clone_issue returned for it
    opIn,       \* a get_issue or update_issue call: the arguments, the issue
                \* on the remote service, the remote outcomes
    opOut       \* what the method returned, and for an update what it left
                \* applied on the remote issue

vars == <<config, now, bucket, acqLog, limiter, gate, performed, granted, threads,
          handlerLog, response, searchIn, searchOut, effects, cloneIn, cloneOut,
          opIn, opOut>>

(***************************************************************************)
(* Bounds                                                                  *)
(***************************************************************************)
MaxCalls == 2       \* rate_limit_calls ranges over 1..MaxCalls
MaxPeriod == 2      \* rate_limit_period ranges over 1..MaxPeriod
MaxTime == 3        \* the clock stops advancing at MaxTime ticks
MaxAcquires == 4    \* direct acquire() calls recorded in acqLog
MaxGateCalls == 3   \* wrapper invocations on one client
NumThreads == 2     \* threads calling acquire() on one bucket at once
MaxHandled == 2     \* operation handler invocations
MaxFields == 2      \* length of the fields list of a search
MaxMatches == 5     \* issues matching a search on the remote service
MaxStartAt == 2     \* start_at of a search ranges over 0..MaxStartAt
MaxResults == 2     \* max_results of a search ranges over 0..MaxResults
MaxAttachments == 2 \* attachments on the source issue of a clone

Min(a, b) == IF a <= b THEN a ELSE b

(***************************************************************************)
(* JiraConfig                                                              *)
(***************************************************************************)
JiraConfig ==
    [rate_limit_calls : 1..MaxCalls,
     rate_limit_period : 1..MaxPeriod,
     complete : BOOLEAN]

(***************************************************************************)
(* RateLimiter                                                             *)
(***************************************************************************)
\* RateLimiter.__init__: the bucket starts full, last_check is the clock.
RateLimiter(calls, period, t) ==
    [calls |-> calls, period |-> period,
     tokens |-> calls * period, last_check |-> t]

\* A refill that starts from the elapsed time alone and forgets the tokens
\* the bucket held.
_add_tokens_forgets(l, t) ==
    [l EXCEPT !.tokens = Min(l.calls * l.period, t - l.last_check),
              !.last_check = t]

\* A refill that leaves out the min(calls, ...) cap.
_add_tokens_uncapped(l, t) ==
    [l EXCEPT !.tokens = l.tokens + (t - l.last_check),
              !.last_check = t]

\* RateLimiter._add_tokens at clock value t.
_add_tokens(l, t) ==
    [l EXCEPT !.tokens = Min(l.calls * l.period, l.tokens + (t - l.last_check)),
              !.last_check = t]

\* An acquire that empties the bucket when it refuses.
acquire_refused_drains(l, t) ==
    LET r == _add_tokens(l, t) IN
    IF r.tokens >= r.period
    THEN [limiter |-> [r EXCEPT !.tokens = r.tokens - r.period], wait |-> 0]
    ELSE [limiter |-> [r EXCEPT !.tokens = 0], wait |-> r.period - r.tokens]

\* An acquire that hands out a token without taking it from the bucket.
acquire_keeps_token(l, t) ==
    LET r == _add_tokens(l, t) IN
    IF r.tokens >= r.period
    THEN [limiter |-> r, wait |-> 0]
    ELSE [limiter |-> r, wait |-> r.period - r.tokens]

\* RateLimiter.acquire at clock value t: the limiter afterwards and the
\* wait it returns, in ticks.
acquire(l, t) ==
    LET r == _add_tokens(l, t) IN
    IF r.tokens >= r.period
    THEN [limiter |-> [r EXCEPT !.tokens = r.tokens - r.period], wait |-> 0]
    ELSE [limiter |-> r, wait |-> r.period - r.tokens]

(***************************************************************************)
(* JiraClient._apply_rate_limiting                                         *)
(***************************************************************************)
methods_to_limit ==
    {"get_issue", "search_issues", "create_issue", "update_issue",
     "get_projects", "add_comment", "get_comments", "log_work", "clone_issue"}

\* Each pass of the loop calls rate_limited(calls, period), and each such
\* call constructs its own RateLimiter.
_apply_rate_limiting(cfg, t) ==
    [m \in methods_to_limit |->
        RateLimiter(cfg.rate_limit_calls, cfg.rate_limit_period, t)]

(***************************************************************************)
(* Values of the variables a specification does not use                    *)
(***************************************************************************)
NoBucket == RateLimiter(1, 1, 0)
NoGate == [pc |-> "idle", seq |-> 0, method |-> "", wait |-> 0, wake |-> 0,
           acquires |-> 0, invocations |-> 0, slept |-> FALSE, outcome |-> ""]
NoCount == [m \in methods_to_limit |-> 0]

NoThreads == << >>

limiterVars == <<bucket, acqLog>>
gateVars == <<limiter, gate, performed, granted>>
handlerVars == <<handlerLog, response>>
searchVars == <<searchIn, searchOut>>
NoResponse == [n |-> 0, op |-> "", failure |-> "", kind |-> "", shape |-> "",
               message |-> ""]
NoSearch == << >>
cloneVars == <<effects, cloneIn, cloneOut>>
NoClone == << >>
opVars == <<opIn, opOut>>
NoOp == << >>

(***************************************************************************)
(* SpecLimiter: one RateLimiter, acquire() called directly                 *)
(***************************************************************************)
InitLimiter ==
    /\ config \in {c \in JiraConfig : c.complete}
    /\ now = 0
    /\ bucket = RateLimiter(config.rate_limit_calls, config.rate_limit_period, 0)
    /\ acqLog = << >>
    /\ limiter = << >>
    /\ gate = NoGate
    /\ performed = NoCount
    /\ granted = NoCount
    /\ threads = NoThreads
    /\ handlerLog = << >>
    /\ response = NoResponse
    /\ searchIn = NoSearch
    /\ searchOut = NoSearch
    /\ effects = << >>
    /\ cloneIn = NoClone
    /\ cloneOut = NoClone
    /\ opIn = NoOp
    /\ opOut = NoOp

\* The clock advances.
Tick ==
    /\ now < MaxTime
    /\ now' = now + 1
    /\ UNCHANGED <<config, threads, limiterVars, gateVars, handlerVars, searchVars, cloneVars, opVars>>

\* A caller runs bucket.acquire().
Acquire ==
    /\ Len(acqLog) < MaxAcquires
    /\ LET a == acquire(bucket, now) IN
        /\ bucket' = a.limiter
        /\ acqLog' = Append(acqLog,
               [t |-> now, before |-> bucket.tokens,
                refilled |-> _add_tokens(bucket, now).tokens,
                after |-> a.limiter.tokens, wait |-> a.wait])
    /\ UNCHANGED <<config, now, threads, gateVars, handlerVars, searchVars, cloneVars, opVars>>

NextLimiter == Tick \/ Acquire

SpecLimiter == InitLimiter /\ [][NextLimiter]_vars

\* C1: with no time passing between calls, the first `calls` acquire() calls
\* on a RateLimiter each return 0, the next one returns a wait > 0, and an
\* acquire() made exactly that wait later returns 0.
C1_BurstThenWait ==
    LET C == config.rate_limit_calls
        SameTime(i) == \A j \in 1..i : acqLog[j].t = acqLog[1].t
    IN  /\ \A i \in 1..Len(acqLog) :
              SameTime(i) =>
                  /\ (i <= C => acqLog[i].wait = 0)
                  /\ (i = C + 1 => acqLog[i].wait > 0)
        /\ (/\ Len(acqLog) >= C + 2
            /\ SameTime(C + 1)
            /\ acqLog[C + 2].t = acqLog[C + 1].t + acqLog[C + 1].wait)
           => acqLog[C + 2].wait = 0

\* C1 witness: calls + 1 immediate acquires, then a retry exactly the
\* returned wait later.
C1_Witness ==
    LET C == config.rate_limit_calls IN
    /\ Len(acqLog) >= C + 2
    /\ \A j \in 1..(C + 1) : acqLog[j].t = acqLog[1].t
    /\ acqLog[C + 1].wait > 0
    /\ acqLog[C + 2].t = acqLog[C + 1].t + acqLog[C + 1].wait
    /\ acqLog[C + 2].wait = 0

\* C20: with positive calls and period and a clock that never goes back,
\* the available credits of a RateLimiter stay within 0..calls in every
\* reachable state: in the stored value, in the value _add_tokens computes
\* inside acquire(), and in what acquire() leaves behind.
C20_TokensWithinCapacity ==
    LET Full == config.rate_limit_calls * config.rate_limit_period
        Within(x) == 0 <= x /\ x <= Full
    IN  /\ config.rate_limit_calls > 0
        /\ config.rate_limit_period > 0
        /\ Within(bucket.tokens)
        /\ \A i \in 1..Len(acqLog) :
              /\ Within(acqLog[i].before)
              /\ Within(acqLog[i].refilled)
              /\ Within(acqLog[i].after)
        /\ \A i \in 2..Len(acqLog) : acqLog[i - 1].t <= acqLog[i].t

\* C20 witness: the bucket was drained to 0, and a later acquire() found
\* more time elapsed than the bucket can hold, so the cap applied.
C20_Witness ==
    LET Full == config.rate_limit_calls * config.rate_limit_period IN
    /\ \E i \in 1..Len(acqLog) : acqLog[i].after = 0
    /\ \E i \in 2..Len(acqLog) :
          /\ acqLog[i].before + (acqLog[i].t - acqLog[i - 1].t) > Full
          /\ acqLog[i].refilled = Full

\* C21: acquire() first refills to min(calls, tokens + elapsed *
\* calls/period) and sets last_check to now; then with at least one token it
\* takes exactly one and returns 0, otherwise it returns (period/calls) *
\* (1 - tokens) and leaves the refilled tokens as they are.
C21_AcquireRefillsThenDecides ==
    LET Full == config.rate_limit_calls * config.rate_limit_period
        One == config.rate_limit_period
        LastCheck(i) == IF i = 1 THEN 0 ELSE acqLog[i - 1].t
    IN  /\ \A i \in 1..Len(acqLog) :
              LET e == acqLog[i] IN
              /\ e.refilled = Min(Full, e.before + (e.t - LastCheck(i)))
              /\ e.refilled >= One => (e.after = e.refilled - One /\ e.wait = 0)
              /\ e.refilled < One => (e.after = e.refilled /\ e.wait = One - e.refilled)
        /\ Len(acqLog) > 0
              => /\ bucket.last_check = acqLog[Len(acqLog)].t
                 /\ bucket.tokens = acqLog[Len(acqLog)].after

\* C21 witness: a refused acquire that found a fraction of a token, after
\* time had passed since the acquire before it.
C21_Witness ==
    \E i \in 2..Len(acqLog) :
        /\ acqLog[i].t > acqLog[i - 1].t
        /\ acqLog[i].refilled > 0
        /\ acqLog[i].wait > 0
        /\ acqLog[i].after = acqLog[i].refilled
        /\ acqLog[i - 1].wait = 0

\* How many of the acquires i..j of the log took a token.
RECURSIVE Consumed(_, _)
Consumed(i, j) ==
    IF i > j THEN 0
    ELSE (IF acqLog[i].wait = 0 THEN 1 ELSE 0) + Consumed(i + 1, j)

\* C22: refill is never negative: what the bucket holds when observed at a
\* later acquire is at least what it held at an earlier one minus the tokens
\* taken by the successful acquires in between.
C22_RefillNeverNegative ==
    LET One == config.rate_limit_period IN
    /\ \A i \in 1..Len(acqLog) : acqLog[i].refilled >= acqLog[i].before
    /\ \A i \in 1..Len(acqLog) : \A j \in (i + 1)..Len(acqLog) :
          /\ acqLog[i].t <= acqLog[j].t
          /\ acqLog[j].refilled >= acqLog[i].refilled - One * Consumed(i, j - 1)
          /\ acqLog[j].after >= acqLog[i].after - One * Consumed(i + 1, j)

\* C22 witness: two observations at different times with a successful
\* acquire and a refill between them.
C22_Witness ==
    \E i \in 1..Len(acqLog) : \E j \in (i + 1)..Len(acqLog) :
        /\ acqLog[i].t < acqLog[j].t
        /\ acqLog[i].wait = 0
        /\ acqLog[j].before < acqLog[j].refilled
        /\ acqLog[j].refilled < acqLog[i].refilled

(***************************************************************************)
(* SpecGate: one JiraClient, its methods called one after another through  *)
(* the rate_limited wrapper                                                *)
(***************************************************************************)
RECURSIVE SumOver(_, _)
SumOver(f, S) ==
    IF S = {} THEN 0
    ELSE LET m == CHOOSE x \in S : TRUE IN f[m] + SumOver(f, S \ {m})

Total(f) == SumOver(f, DOMAIN f)

\* wrapper, lines 64-67: acquire() returned w at clock value t.
wrapper_enter(g, m, w, t) ==
    [pc |-> IF w > 0 THEN "sleeping" ELSE "calling",
     seq |-> g.seq + 1, method |-> m, wait |-> w, wake |-> t + w,
     acquires |-> 1, invocations |-> 0, slept |-> FALSE, outcome |-> ""]

\* wrapper, line 67: time.sleep(wait_time) has returned.
wrapper_wake(g) == [g EXCEPT !.pc = "calling", !.slept = TRUE]

\* A wrapper that calls func again when it raised.
wrapper_call_retry(g, res) ==
    [g EXCEPT !.pc = "done",
              !.invocations = @ + (IF res = "raised" THEN 2 ELSE 1),
              !.outcome = res]

\* wrapper, line 68: return func(*args, **kwargs); res is "returned" or
\* "raised", and either way it is the wrapper's own outcome.
wrapper_call(g, res) ==
    [g EXCEPT !.pc = "done", !.invocations = @ + 1, !.outcome = res]

InitGate ==
    /\ config \in {c \in JiraConfig : c.complete}
    /\ now = 0
    /\ bucket = NoBucket
    /\ acqLog = << >>
    /\ limiter = _apply_rate_limiting(config, 0)
    /\ gate = NoGate
    /\ performed = NoCount
    /\ granted = NoCount
    /\ threads = NoThreads
    /\ handlerLog = << >>
    /\ response = NoResponse
    /\ searchIn = NoSearch
    /\ searchOut = NoSearch
    /\ effects = << >>
    /\ cloneIn = NoClone
    /\ cloneOut = NoClone
    /\ opIn = NoOp
    /\ opOut = NoOp

\* A wrapped method m of the client is called: the wrapper runs acquire().
GateEnter(m) ==
    /\ gate.pc \in {"idle", "done"}
    /\ gate.seq < MaxGateCalls
    /\ LET a == acquire(limiter[m], now) IN
        /\ limiter' = [limiter EXCEPT ![m] = a.limiter]
        /\ gate' = wrapper_enter(gate, m, a.wait, now)
        /\ granted' = [granted EXCEPT ![m] = @ + (IF a.wait = 0 THEN 1 ELSE 0)]
    /\ UNCHANGED <<config, now, performed, threads, limiterVars, handlerVars, searchVars, cloneVars, opVars>>

\* time.sleep returns, no earlier than the wait asked for.
GateWake ==
    /\ gate.pc = "sleeping"
    /\ now >= gate.wake
    /\ gate' = wrapper_wake(gate)
    /\ UNCHANGED <<config, now, limiter, performed, granted, threads, limiterVars, handlerVars, searchVars, cloneVars, opVars>>

\* The wrapped function runs and returns or raises.
GateCall(res) ==
    /\ gate.pc = "calling"
    /\ gate' = wrapper_call(gate, res)
    /\ performed' = [performed EXCEPT ![gate.method] = @ + gate'.invocations]
    /\ UNCHANGED <<config, now, limiter, granted, threads, limiterVars, handlerVars, searchVars, cloneVars, opVars>>

\* The methods the callers of the client use.
CalledMethods == {"get_issue", "search_issues", "clone_issue"}

NextGate ==
    \/ Tick
    \/ \E m \in CalledMethods : GateEnter(m)
    \/ GateWake
    \/ \E res \in {"returned", "raised"} : GateCall(res)

SpecGate == InitGate /\ [][NextGate]_vars

\* C2: every call admitted by the gate has consumed a credit, so through one
\* gate created at time 0 the number of wrapped calls performed by time t is
\* at most calls + t * calls/period, calls admitted after a sleep included.
\* (Both sides are multiplied by period; now is in ticks of 1/calls second.)
C2_CallsBoundedByCredits ==
    \A m \in methods_to_limit :
        performed[m] * config.rate_limit_period
            <= config.rate_limit_calls * config.rate_limit_period + now

\* C3: all gated operations of one client draw from a single bucket, so the
\* credits granted (acquire() returning 0) over all methods together by time
\* t are at most calls + t * calls/period.
C3_SingleBucketPerClient ==
    Total(granted) * config.rate_limit_period
        <= config.rate_limit_calls * config.rate_limit_period + now

\* C6: each wrapper invocation calls acquire() once, sleeps only when the
\* returned wait is > 0, and invokes the wrapped function exactly once,
\* also when that function raises.
C6_AcquireSleepCallOnce ==
    /\ gate.pc = "sleeping" =>
          gate.wait > 0 /\ gate.acquires = 1 /\ gate.invocations = 0
    /\ gate.pc = "calling" =>
          gate.acquires = 1 /\ gate.invocations = 0 /\ (gate.slept <=> gate.wait > 0)
    /\ gate.pc = "done" =>
          /\ gate.acquires = 1
          /\ gate.invocations = 1
          /\ (gate.slept <=> gate.wait > 0)
          /\ Total(performed) = gate.seq
    /\ gate.pc # "done" /\ gate.seq > 0 => Total(performed) = gate.seq - 1

\* C6 witness: a wrapper invocation that slept, whose function raised, and
\* that is not the first one on the client.
C6_Witness ==
    /\ gate.pc = "done"
    /\ gate.seq >= 2
    /\ gate.slept
    /\ gate.wait > 0
    /\ gate.outcome = "raised"

(***************************************************************************)
(* SpecConc: several threads inside acquire() of one RateLimiter.          *)
(* The class takes no lock, so the threads interleave between the reads    *)
(* and writes of self.tokens and self.last_check.                          *)
(***************************************************************************)
Threads == 1..NumThreads

ThreadStart == [pc |-> "now", now_l |-> 0, passed |-> 0, tokens_l |-> 0, ret |-> -1]

InitConc ==
    /\ config \in {c \in JiraConfig : c.complete}
    /\ now = 0
    /\ bucket = RateLimiter(config.rate_limit_calls, config.rate_limit_period, 0)
    /\ acqLog = << >>
    /\ limiter = << >>
    /\ gate = NoGate
    /\ performed = NoCount
    /\ granted = NoCount
    /\ threads = [i \in Threads |-> ThreadStart]
    /\ handlerLog = << >>
    /\ response = NoResponse
    /\ searchIn = NoSearch
    /\ searchOut = NoSearch
    /\ effects = << >>
    /\ cloneIn = NoClone
    /\ cloneOut = NoClone
    /\ opIn = NoOp
    /\ opOut = NoOp

ConcUnchanged ==
   UNCHANGED <<config, now, acqLog, gateVars, handlerVars, searchVars, cloneVars, opVars>>

\* _add_tokens, line 30: now = datetime.now()
ReadClock(i) ==
    /\ threads[i].pc = "now"
    /\ threads' = [threads EXCEPT ![i].pc = "passed", ![i].now_l = now]
    /\ UNCHANGED bucket /\ ConcUnchanged

\* _add_tokens, line 31: time_passed = now - self.last_check
ReadLastCheck(i) ==
    /\ threads[i].pc = "passed"
    /\ threads' = [threads EXCEPT ![i].pc = "load",
                                  ![i].passed = threads[i].now_l - bucket.last_check]
    /\ UNCHANGED bucket /\ ConcUnchanged

\* _add_tokens, lines 32-35: the right-hand side reads self.tokens ...
LoadTokens(i) ==
    /\ threads[i].pc = "load"
    /\ threads' = [threads EXCEPT ![i].pc = "store",
                                  ![i].tokens_l = Min(bucket.calls * bucket.period,
                                                      bucket.tokens + threads[i].passed)]
    /\ UNCHANGED bucket /\ ConcUnchanged

\* ... and the assignment stores the result.
StoreTokens(i) ==
    /\ threads[i].pc = "store"
    /\ bucket' = [bucket EXCEPT !.tokens = threads[i].tokens_l]
    /\ threads' = [threads EXCEPT ![i].pc = "stamp"]
    /\ ConcUnchanged

\* _add_tokens, line 36: self.last_check = now
StoreLastCheck(i) ==
    /\ threads[i].pc = "stamp"
    /\ bucket' = [bucket EXCEPT !.last_check = threads[i].now_l]
    /\ threads' = [threads EXCEPT ![i].pc = "check"]
    /\ ConcUnchanged

\* acquire, line 43: if self.tokens >= 1; line 48 on the other branch.
CheckTokens(i) ==
    /\ threads[i].pc = "check"
    /\ threads' = IF bucket.tokens >= bucket.period
                  THEN [threads EXCEPT ![i].pc = "dec_load"]
                  ELSE [threads EXCEPT ![i].pc = "done",
                                       ![i].ret = bucket.period - bucket.tokens]
    /\ UNCHANGED bucket /\ ConcUnchanged

\* acquire, line 44: self.tokens -= 1 reads self.tokens ...
DecLoad(i) ==
    /\ threads[i].pc = "dec_load"
    /\ threads' = [threads EXCEPT ![i].pc = "dec_store",
                                  ![i].tokens_l = bucket.tokens - bucket.period]
    /\ UNCHANGED bucket /\ ConcUnchanged

\* ... and stores the difference; line 45: return 0.0
DecStore(i) ==
    /\ threads[i].pc = "dec_store"
    /\ bucket' = [bucket EXCEPT !.tokens = threads[i].tokens_l]
    /\ threads' = [threads EXCEPT ![i].pc = "done", ![i].ret = 0]
    /\ ConcUnchanged

NextConc ==
    \/ Tick
    \/ \E i \in Threads :
          \/ ReadClock(i) \/ ReadLastCheck(i) \/ LoadTokens(i) \/ StoreTokens(i)
          \/ StoreLastCheck(i) \/ CheckTokens(i) \/ DecLoad(i) \/ DecStore(i)

SpecConc == InitConc /\ [][NextConc]_vars

\* C5: under any interleaving of concurrent acquire() calls on one bucket
\* the refill-check-decrement is atomic: the callers that received wait = 0
\* never outnumber the credits the bucket held and accrued, and the bucket
\* never goes below 0.
C5_AtomicAcquire ==
    /\ bucket.tokens >= 0
    /\ Cardinality({i \in Threads : threads[i].ret = 0}) * config.rate_limit_period
          <= config.rate_limit_calls * config.rate_limit_period + now

(***************************************************************************)
(* SpecHandlers: the operation handlers of src/operations.  Every handler  *)
(* builds a JiraConfig and a JiraClient of its own, calls one wrapped      *)
(* method on it and encodes the result.                                    *)
(***************************************************************************)
Operations == methods_to_limit

\* Where an invocation goes wrong, if anywhere.
FailureSources == {"validation", "connect", "remote", "shaping", "encoding"}

Raise(e) == [raised |-> TRUE, val |-> e]
Return(v) == [raised |-> FALSE, val |-> v]

\* The handler's reading of its arguments: the pydantic model, or
\* arguments["issue_key"] / arguments["jql"].  get_projects only uses
\* arguments.get with defaults.
parse_arguments(op, f) ==
    IF f = "validation" /\ op # "get_projects"
    THEN Raise("ValidationError")
    ELSE Return("args")

\* A constructor that leaves out _verify_config.
JiraClient_unverified(cfg, t) ==
    Return(_apply_rate_limiting(cfg, t))

\* JiraClient.__init__: _verify_config, then _apply_rate_limiting.
JiraClient(cfg, t) ==
    IF ~cfg.complete
    THEN Raise("JIRA configuration is incomplete")
    ELSE Return(_apply_rate_limiting(cfg, t))

\* The body of a JiraClient method: all of it sits in try/except Exception,
\* which turns a failed connect, remote call or shaping of the result into
\* an {"error": ...} dict.  A result holding a raw remote object is returned
\* as it is and cannot be encoded.
client_method(op, f) ==
    IF f \in {"connect", "remote", "shaping"}
    THEN [shape |-> "error", serializable |-> TRUE, message |-> f \o " failed"]
    ELSE [shape |-> "success", serializable |-> f # "encoding", message |-> ""]

\* json.dumps(result).encode()
json_dumps(d) ==
    IF d.serializable
    THEN Return([kind |-> "bytes", shape |-> d.shape, message |-> d.message])
    ELSE Raise("TypeError")

\* A handler whose json.dumps(result) sits after the try block.
handler_encode_outside_try(op, cfg, f, t) ==
    LET a == parse_arguments(op, f)
        c == IF a.raised THEN a ELSE JiraClient(cfg, t)
        r == IF c.raised THEN c ELSE Return(client_method(op, f))
    IN  IF r.raised THEN [kind |-> "bytes", shape |-> "error", message |-> r.val]
        ELSE IF json_dumps(r.val).raised
             THEN [kind |-> "exception", shape |-> "", message |-> ""]
        ELSE json_dumps(r.val).val

\* An operation handler: try: arguments, config and client, the wrapped
\* method, json.dumps;  except Exception: the {"error": str(e)} bytes.
handler(op, cfg, f, t) ==
    LET a == parse_arguments(op, f)
        c == IF a.raised THEN a ELSE JiraClient(cfg, t)
        r == IF c.raised THEN c ELSE Return(client_method(op, f))
        j == IF r.raised THEN r ELSE json_dumps(r.val)
    IN  IF j.raised THEN [kind |-> "bytes", shape |-> "error", message |-> j.val]
        ELSE j.val

\* One step an operation takes outside the process, or on its limiter.
Effect(call, arg) == [call |-> call, arg |-> arg]

\* What a call of the wrapped client.<op> does before it returns: the
\* wrapper's acquire(), then in the method body connect() because the new
\* client has no connection, then the remote call unless connect() raised.
method_effects(op, f) ==
    <<Effect("acquire", op), Effect("connect", "")>>
        \o (IF f = "connect" THEN << >> ELSE <<Effect("remote", op)>>)

InitHandlers ==
    /\ config \in JiraConfig
    /\ now = 0
    /\ bucket = NoBucket
    /\ acqLog = << >>
    /\ limiter = << >>
    /\ gate = NoGate
    /\ performed = NoCount
    /\ granted = NoCount
    /\ threads = NoThreads
    /\ handlerLog = << >>
    /\ response = NoResponse
    /\ searchIn = NoSearch
    /\ searchOut = NoSearch
    /\ effects = << >>
    /\ cloneIn = NoClone
    /\ cloneOut = NoClone
    /\ opIn = NoOp
    /\ opOut = NoOp

\* One invocation of the handler of op.  The wrapper of client.<op> runs
\* acquire() on the limiter of the client this invocation has just built,
\* and sleeps for the wait it returns before the method body runs.  The
\* client is a local of the handler and is gone when it returns.
Handler(op, f) ==
    /\ response.n < MaxHandled
    /\ LET a == parse_arguments(op, f)
           c == IF a.raised THEN a ELSE JiraClient(config, now)
           out == handler(op, config, f, now)
       IN  /\ response' = [n |-> response.n + 1, op |-> op, failure |-> f,
                           kind |-> out.kind, shape |-> out.shape,
                           message |-> out.message]
           /\ effects' = IF c.raised THEN << >> ELSE method_effects(op, f)
           /\ IF c.raised
              THEN UNCHANGED <<handlerLog, now>>
              ELSE LET q == acquire(c.val[op], now) IN
                   /\ handlerLog' = Append(handlerLog,
                          [t |-> now,
                           available |-> _add_tokens(c.val[op], now).tokens,
                           after |-> q.limiter.tokens,
                           wait |-> q.wait])
                   /\ now' = now + q.wait
    /\ UNCHANGED <<config, threads, limiterVars, gateVars, searchVars, cloneIn, cloneOut, opVars>>

NextHandlers ==
    \/ Tick
    \/ \E op \in Operations, f \in FailureSources \cup {"none"} : Handler(op, f)

SpecHandlers == InitHandlers /\ [][NextHandlers]_vars

\* C4: the bucket persists across handler invocations: what an invocation
\* finds available is at most what the previous invocation left plus the
\* refill for the time between them, so a new operation never starts from a
\* bucket reset to full.
C4_BucketPersistsAcrossHandlers ==
    \A i \in 2..Len(handlerLog) :
        handlerLog[i].available
            <= Min(config.rate_limit_calls * config.rate_limit_period,
                   handlerLog[i - 1].after + (handlerLog[i].t - handlerLog[i - 1].t))

\* C7: whatever fails (arguments, configuration, connect, remote call,
\* shaping, JSON encoding), a handler returns bytes holding the success
\* shape or {"error": ...}; nothing propagates out of it, and the success
\* shape is returned exactly when nothing failed.
C7_HandlerIsErrorBoundary ==
    response.n > 0 =>
        /\ response.kind = "bytes"
        /\ response.shape \in {"success", "error"}
        /\ (response.shape = "success"
              <=> /\ config.complete
                  /\ \/ response.failure = "none"
                     \/ response.failure = "validation" /\ response.op = "get_projects")

\* C7 witness: the result of a method could not be encoded and the handler
\* answered with the error shape.
C7_Witness ==
    /\ response.n > 0
    /\ config.complete
    /\ response.failure = "encoding"
    /\ response.kind = "bytes"
    /\ response.shape = "error"

(***************************************************************************)
(* SpecSearch: JiraClient.search_issues and the projection of each issue   *)
(* the transport returns                                                   *)
(***************************************************************************)
\* Values.  A raw remote object keeps the set of attributes it exposes; a
\* dict keeps its entries in insertion order, as json.dumps writes them.
Null == [kind |-> "null", text |-> "", attrs |-> {}]
Str(x) == [kind |-> "str", text |-> x, attrs |-> {}]
Obj(A) == [kind |-> "obj", text |-> "", attrs |-> A]

\* What reading attribute a of a remote object gives.
AttrText(a) == IF a = "displayName" THEN "display name" ELSE "name"

FieldNames ==
    {"key", "summary", "status", "assignee", "reporter", "issuetype", "priority"}

RawValues == {Null, Str("text"), Obj({"name", "displayName"}), Obj({"name"})}

default_fields == <<"key", "summary", "status", "assignee", "issuetype", "priority">>

Range(q) == {q[i] : i \in 1..Len(q)}

\* A dict whose new keys go in front.
dict_set_prepend(d, k, v) ==
    IF \E i \in 1..Len(d) : d[i].k = k
    THEN [i \in 1..Len(d) |-> IF d[i].k = k THEN [k |-> k, v |-> v] ELSE d[i]]
    ELSE <<[k |-> k, v |-> v]>> \o d

\* d[k] = v on a dict: a key already there keeps its place.
dict_set(d, k, v) ==
    IF \E i \in 1..Len(d) : d[i].k = k
    THEN [i \in 1..Len(d) |-> IF d[i].k = k THEN [k |-> k, v |-> v] ELSE d[i]]
    ELSE Append(d, [k |-> k, v |-> v])

dict_keys(d) == [i \in 1..Len(d) |-> d[i].k]

dict_get(d, k) == (CHOOSE e \in Range(d) : e.k = k).v

\* `value.<a> if value else None` inside the try of lines 137-150: None and
\* "" are falsy; an object or string without the attribute raises
\* AttributeError, which the except turns into None.
attr_or_none(value, a) ==
    IF value.kind = "null" \/ (value.kind = "str" /\ value.text = "") THEN Null
    ELSE IF a \in value.attrs THEN Str(AttrText(a))
    ELSE Null

\* An exception that no except of the loop body catches.
Raised == [kind |-> "raise", text |-> "", attrs |-> {}]

\* A loop body whose except does not catch the missing attribute.
project_value_uncaught(issue, field) ==
    IF field \notin DOMAIN issue.fields THEN Raised
    ELSE LET value == issue.fields[field] IN
         IF field = "assignee" THEN attr_or_none(value, "displayName")
         ELSE IF field = "status" THEN attr_or_none(value, "name")
         ELSE IF field = "issuetype" THEN attr_or_none(value, "name")
         ELSE IF field = "priority" THEN attr_or_none(value, "name")
         ELSE value

\* Lines 137-150: the value stored for one requested field.
project_value(issue, field) ==
    IF field \notin DOMAIN issue.fields THEN Null
    ELSE LET value == issue.fields[field] IN
         IF field = "assignee" THEN attr_or_none(value, "displayName")
         ELSE IF field = "status" THEN attr_or_none(value, "name")
         ELSE IF field = "issuetype" THEN attr_or_none(value, "name")
         ELSE IF field = "priority" THEN attr_or_none(value, "name")
         ELSE value

\* Line 133: issue_dict = {"key": issue.key}
new_issue_dict(issue) == <<[k |-> "key", v |-> Str(issue.key)]>>

\* Lines 134-150: the loop over the requested fields, from position i on.
RECURSIVE project_fields(_, _, _, _)
project_fields(d, issue, fields, i) ==
    IF i > Len(fields) THEN d
    ELSE IF fields[i] = "key" THEN project_fields(d, issue, fields, i + 1)
    ELSE project_fields(dict_set(d, fields[i], project_value(issue, fields[i])),
                        issue, fields, i + 1)

\* Lines 133-152 for one issue.
project(issue, fields) == project_fields(new_issue_dict(issue), issue, fields, 1)

\* max_results when the caller of the handler gives none.
default_max_results == 50

\* The remote search behind self.client.search_issues(jql, maxResults,
\* startAt, fields): the page of the matching issues that starts at startAt
\* and holds at most maxResults of them (all of them from startAt on when
\* maxResults is 0), and the number of all matching issues as its total.
transport_search(matches, startAt, maxResults) ==
    LET last == IF maxResults = 0 THEN Len(matches)
                ELSE Min(Len(matches), startAt + maxResults)
    IN  [issues |-> SubSeq(matches, startAt + 1, last), total |-> Len(matches)]

\* A search_issues that reports the length of the page as the total.
search_issues_total_of_page(in) ==
    LET fields == IF in.fields = << >> THEN default_fields ELSE in.fields
        issues == transport_search(in.issues, in.start_at, in.max_results)
        results == [i \in 1..Len(issues.issues) |-> project(issues.issues[i], fields)]
        escaped == \E i \in 1..Len(results) :
                       \E j \in 1..Len(results[i]) : results[i][j].v.kind = "raise"
    IN  IF ~in.remote_ok \/ escaped
        THEN [shape |-> "error", fields |-> fields, issues |-> << >>]
        ELSE [shape |-> "success", fields |-> fields, issues |-> results,
              total |-> Len(results), start_at |-> in.start_at,
              max_results |-> in.max_results]

\* JiraClient.search_issues: the default field list, the remote search, the
\* projection of every issue returned, the result dict, and the except
\* around all of it.
search_issues(in) ==
    LET fields == IF in.fields = << >> THEN default_fields ELSE in.fields
        issues == transport_search(in.issues, in.start_at, in.max_results)
        results == [i \in 1..Len(issues.issues) |-> project(issues.issues[i], fields)]
        escaped == \E i \in 1..Len(results) :
                       \E j \in 1..Len(results[i]) : results[i][j].v.kind = "raise"
    IN  IF ~in.remote_ok \/ escaped
        THEN [shape |-> "error", fields |-> fields, issues |-> << >>]
        ELSE [shape |-> "success", fields |-> fields, issues |-> results,
              total |-> issues.total, start_at |-> in.start_at,
              max_results |-> in.max_results]

\* Whether json.dumps can encode the result: a raw remote object cannot be.
serializable(result) ==
    \A i \in 1..Len(result.issues) :
        \A j \in 1..Len(result.issues[i]) : result.issues[i][j].v.kind # "obj"

\* The fields lists a caller may pass, the empty one standing for None.
FieldLists == UNION {[1..n -> FieldNames] : n \in 0..MaxFields}

\* The remote service fills in the fields that were asked for, when the
\* issue has them.
IssuesFor(fields) ==
    LET asked == Range(IF fields = << >> THEN default_fields ELSE fields) \ {"key"} IN
    {[key |-> "PROJ-1", fields |-> fs] :
        fs \in UNION {[present -> RawValues] : present \in SUBSET asked}}

\* The key of the i-th issue matching a search.
IssueKey(i) == "PROJ-" \o ToString(i)

\* The lists of matching issues of the searches that exercise paging: any
\* number of issues up to MaxMatches, each with or without a summary.
MatchLists ==
    UNION {[1..n -> {Null, Str("text")}] : n \in 0..MaxMatches}

InitSearch ==
    /\ config \in {c \in JiraConfig : c.complete /\ c.rate_limit_calls = 1
                                       /\ c.rate_limit_period = 1}
    /\ now = 0
    /\ bucket = NoBucket
    /\ acqLog = << >>
    /\ limiter = << >>
    /\ gate = NoGate
    /\ performed = NoCount
    /\ granted = NoCount
    /\ threads = NoThreads
    /\ handlerLog = << >>
    /\ response = NoResponse
    /\ \/ \E fields \in FieldLists, ok \in BOOLEAN :
             \E issue \in IssuesFor(fields) :
                 searchIn = [fields |-> fields, remote_ok |-> ok,
                             issues |-> <<issue>>,
                             max_results |-> default_max_results, start_at |-> 0]
       \/ \E fields \in {<< >>, <<"summary">>}, ok \in BOOLEAN,
             summaries \in MatchLists,
             start \in 0..MaxStartAt, max \in 0..MaxResults :
                 searchIn = [fields |-> fields, remote_ok |-> ok,
                             issues |-> [i \in 1..Len(summaries) |->
                                            [key |-> IssueKey(i),
                                             fields |-> [f \in {"summary"} |-> summaries[i]]]],
                             max_results |-> max, start_at |-> start]
    /\ searchOut = NoSearch
    /\ effects = << >>
    /\ cloneIn = NoClone
    /\ cloneOut = NoClone
    /\ opIn = NoOp
    /\ opOut = NoOp

\* The search_issues handler runs the search and encodes the result.
Search ==
    /\ searchOut = NoSearch
    /\ LET result == search_issues(searchIn)
           encoded == json_dumps([shape |-> result.shape,
                                  serializable |-> serializable(result),
                                  message |-> ""])
       IN  /\ searchOut' = result
           /\ response' = [n |-> 1, op |-> "search_issues",
                           failure |-> IF ~searchIn.remote_ok THEN "remote"
                                       ELSE IF encoded.raised THEN "encoding"
                                       ELSE "none",
                           kind |-> "bytes",
                           shape |-> IF encoded.raised THEN "error" ELSE encoded.val.shape,
                           message |-> IF encoded.raised THEN encoded.val
                                       ELSE IF result.shape = "error"
                                            THEN "Error searching issues"
                                       ELSE ""]
    /\ UNCHANGED <<config, now, threads, limiterVars, gateVars, handlerLog, searchIn, cloneVars, opVars>>

NextSearch == Search

SpecSearch == InitSearch /\ [][NextSearch]_vars

\* Position of the first occurrence of x in q.
FirstIndex(q, x) == CHOOSE i \in 1..Len(q) : q[i] = x /\ \A j \in 1..(i - 1) : q[j] # x

\* C8: every projected record has "key" as its first entry, requested or
\* not, followed by the other requested fields in the order of the request.
C8_KeyFirstThenRequestOrder ==
    (searchOut # NoSearch /\ searchOut.shape = "success") =>
        \A i \in 1..Len(searchOut.issues) :
            LET keys == dict_keys(searchOut.issues[i])
                req == searchOut.fields
            IN  /\ keys[1] = "key"
                /\ Range(keys) = {"key"} \cup Range(req)
                /\ \A a, b \in 1..Len(keys) : a # b => keys[a] # keys[b]
                /\ \A a, b \in 2..Len(keys) :
                       a < b => FirstIndex(req, keys[a]) < FirstIndex(req, keys[b])

\* C8 witness: "key" was not requested, two different fields were, and the
\* record lists key, then the two in the order asked.
C8_Witness ==
    /\ searchOut # NoSearch
    /\ searchOut.shape = "success"
    /\ Len(searchIn.fields) = 2
    /\ searchIn.fields[1] # searchIn.fields[2]
    /\ "key" \notin Range(searchIn.fields)
    /\ dict_keys(searchOut.issues[1]) = <<"key", searchIn.fields[1], searchIn.fields[2]>>

LabelledFields == {"status", "assignee", "issuetype", "priority"}

\* C9: projection never fails on missing data: when the remote search
\* answered, search_issues returns the success result, a requested field the
\* record lacks is null in it, and so is a requested status, assignee,
\* issuetype or priority whose sub-object is null; a record made of such
\* fields only is returned by the handler as a success too.
C9_MissingDataProjectsNull ==
    (searchOut # NoSearch /\ searchIn.remote_ok) =>
        /\ searchOut.shape = "success"
        /\ \A i \in 1..Len(searchOut.issues) :
              LET raw == searchIn.issues[searchIn.start_at + i].fields
                  asked == Range(searchOut.fields) \ {"key"}
              IN  /\ \A f \in asked \ DOMAIN raw :
                         dict_get(searchOut.issues[i], f) = Null
                  /\ \A f \in asked \cap DOMAIN raw \cap LabelledFields :
                         raw[f] = Null => dict_get(searchOut.issues[i], f) = Null
        /\ (\A i \in 1..Len(searchIn.issues) :
               \A f \in DOMAIN searchIn.issues[i].fields :
                   searchIn.issues[i].fields[f] = Null)
           => response.shape = "success"

\* C9 witness: a search that asked for a field the record lacks and for a
\* status whose sub-object is null, and succeeded.
C9_Witness ==
    /\ searchOut # NoSearch
    /\ searchIn.remote_ok
    /\ searchIn.fields = <<"summary", "status">>
    /\ DOMAIN searchIn.issues[1].fields = {"status"}
    /\ searchIn.issues[1].fields["status"] = Null
    /\ searchOut.shape = "success"
    /\ response.shape = "success"
    /\ dict_get(searchOut.issues[1], "summary") = Null
    /\ dict_get(searchOut.issues[1], "status") = Null

\* C10: assignee, reporter, status, issuetype and priority are projected to
\* their name/label when the raw value is a sub-object exposing it, and to
\* null when the raw value is null; every other field is passed through.
C10_CompoundFieldsReduced ==
    (searchOut # NoSearch /\ searchOut.shape = "success") =>
        \A i \in 1..Len(searchOut.issues) :
            LET raw == searchIn.issues[searchIn.start_at + i].fields
                asked == Range(searchOut.fields) \ {"key"}
            IN  \A f \in asked \cap DOMAIN raw :
                    LET out == dict_get(searchOut.issues[i], f) IN
                    IF f \in LabelledFields \cup {"reporter"}
                    THEN /\ (raw[f].kind = "obj" /\ {"name", "displayName"} \subseteq raw[f].attrs)
                               => out.kind = "str"
                         /\ raw[f] = Null => out = Null
                    ELSE out = raw[f]

\* C17: a successful search returns one projected record for every record
\* the transport returned for (max_results, start_at), in the transport's
\* order; total is the transport's total, start_at and max_results echo the
\* request.  With max_results = 2 and start_at = 0 over 5 matching issues
\* the result holds 2 records and total = 5.
C17_SearchPageAndTotal ==
    (searchOut # NoSearch /\ searchOut.shape = "success") =>
        LET N == Len(searchIn.issues)
            from == searchIn.start_at
            page == IF searchIn.max_results = 0
                    THEN IF N > from THEN N - from ELSE 0
                    ELSE IF N > from THEN Min(N - from, searchIn.max_results) ELSE 0
        IN  /\ Len(searchOut.issues) = page
            /\ \A i \in 1..page :
                  /\ searchOut.issues[i][1].k = "key"
                  /\ searchOut.issues[i][1].v = Str(searchIn.issues[from + i].key)
                  /\ dict_keys(searchOut.issues[i])
                        = dict_keys(project(searchIn.issues[from + i],
                                            searchOut.fields))
            /\ searchOut.total = N
            /\ searchOut.start_at = searchIn.start_at
            /\ searchOut.max_results = searchIn.max_results
            /\ (searchIn.max_results = 2 /\ from = 0 /\ N = 5)
                   => (Len(searchOut.issues) = 2 /\ searchOut.total = 5)

\* C17 witness: max_results = 2, start_at = 0 over 5 matching issues gave 2
\* records and total = 5.
C17_Witness ==
    /\ searchOut # NoSearch
    /\ searchOut.shape = "success"
    /\ Len(searchIn.issues) = 5
    /\ searchIn.max_results = 2
    /\ searchIn.start_at = 0
    /\ Len(searchOut.issues) = 2
    /\ searchOut.total = 5

\* C18: when the URL, the username or the API token is missing, every
\* operation handler returns the error result with a message, and on the way
\* neither connects, nor makes a remote call, nor runs acquire() on a
\* limiter; the handler runs once and nothing is tried again.
C18_IncompleteConfigFailsFast ==
    (response.n > 0 /\ response.op \in Operations /\ ~config.complete) =>
        /\ response.kind = "bytes"
        /\ response.shape = "error"
        /\ response.message # ""
        /\ (response.failure # "validation"
               => response.message = "JIRA configuration is incomplete")
        /\ effects = << >>
        /\ handlerLog = << >>

\* C18 witness: with incomplete credentials, handlers were invoked with
\* arguments that are fine and a remote service that would have answered.
C18_Witness ==
    /\ ~config.complete
    /\ response.n = MaxHandled
    /\ response.op = "clone_issue"
    /\ response.failure = "none"
    /\ response.shape = "error"
    /\ response.message = "JIRA configuration is incomplete"

(***************************************************************************)
(* SpecClone: JiraClient.clone_issue called through its wrapper on a new   *)
(* client: the field set it builds from the arguments and the source       *)
(* issue, and the calls it makes on the remote service                     *)
(***************************************************************************)
\* More values: a dict with the one entry k: x, a list of strings, an
\* attribute the object does not have, a remote object whose attributes read
\* as texts made from t.
Dict1(k, x) == [kind |-> "dict", text |-> x, attrs |-> {k}]
List(S) == [kind |-> "list", text |-> "", attrs |-> S]
Missing == [kind |-> "missing", text |-> "", attrs |-> {}]
ObjT(A, t) == [kind |-> "obj", text |-> t, attrs |-> A]

\* hasattr(v, a) and v.<a> on a remote object.
hasattr(v, a) == v.kind = "obj" /\ a \in v.attrs
getattr(v, a) == IF a = "name" THEN v.text ELSE v.text \o "." \o a

\* Python truth value of `hasattr(fields, f) and fields.f`: None, "", [] and
\* an attribute that is not there count as false.
truthy(v) ==
    /\ v.kind \notin {"null", "missing"}
    /\ ~(v.kind = "str" /\ v.text = "")
    /\ ~(v.kind = "list" /\ v.attrs = {})

dict_has(d, k) == \E i \in 1..Len(d) : d[i].k = k

\* d.update(e), from entry i of e on.
RECURSIVE dict_update(_, _, _)
dict_update(d, e, i) ==
    IF i > Len(e) THEN d
    ELSE dict_update(dict_set(d, e[i].k, e[i].v), e, i + 1)

custom_field_prefixes == {"customfield_"}

\* field_name.startswith(prefix)
startswith(name, prefix) ==
    Len(name) >= Len(prefix) /\ SubSeq(name, 1, Len(prefix)) = prefix

\* A normalisation that probes name before id and value.
normalize_name_first(field_value) ==
    IF hasattr(field_value, "name") THEN Dict1("name", getattr(field_value, "name"))
    ELSE IF hasattr(field_value, "id") THEN Dict1("id", getattr(field_value, "id"))
    ELSE IF hasattr(field_value, "value") THEN Dict1("value", getattr(field_value, "value"))
    ELSE field_value

\* Lines 515-522: what is kept of a custom field value that is not None.
normalize(field_value) ==
    IF hasattr(field_value, "id") THEN Dict1("id", getattr(field_value, "id"))
    ELSE IF hasattr(field_value, "value") THEN Dict1("value", getattr(field_value, "value"))
    ELSE IF hasattr(field_value, "name") THEN Dict1("name", getattr(field_value, "name"))
    ELSE field_value

\* Lines 510-522: the loop over dir(source_issue.fields), from entry i on.
RECURSIVE extract_custom_fields(_, _, _)
extract_custom_fields(d, fields, i) ==
    IF i > Len(fields) THEN d
    ELSE IF /\ \E prefix \in custom_field_prefixes : startswith(fields[i].k, prefix)
            /\ fields[i].v # Null
         THEN extract_custom_fields(dict_set(d, fields[i].k, normalize(fields[i].v)),
                                    fields, i + 1)
         ELSE extract_custom_fields(d, fields, i + 1)

source_custom_fields(source) == extract_custom_fields(<< >>, source.extra, 1)

\* A merge in which the source's custom fields are applied last.
merge_source_last(issue_dict, source_fields, custom_fields) ==
    LET d == IF custom_fields # << >> THEN dict_update(issue_dict, custom_fields, 1)
             ELSE issue_dict
    IN  dict_update(d, source_fields, 1)

\* Lines 525-529: issue_dict.update(source_custom_fields), then
\* issue_dict.update(args.custom_fields) when that dict is not empty.
merge_custom_fields(issue_dict, source_fields, custom_fields) ==
    LET d == dict_update(issue_dict, source_fields, 1) IN
    IF custom_fields # << >> THEN dict_update(d, custom_fields, 1) ELSE d

\* Lines 465-503: project, summary and issuetype, then description,
\* priority, assignee and labels.
resolve_fields(args, source) ==
    LET target_project == IF truthy(args.project_key) THEN args.project_key
                          ELSE Str(source.project)
        d0 == <<[k |-> "project", v |-> target_project],
                [k |-> "summary",
                 v |-> IF truthy(args.summary) THEN args.summary
                       ELSE Str("Clone of " \o source.summary)],
                [k |-> "issuetype",
                 v |-> Dict1("name", IF truthy(args.issue_type) THEN args.issue_type.text
                                     ELSE source.issuetype)]>>
        d1 == dict_set(d0, "description",
                       IF args.description # Null THEN args.description
                       ELSE source.description)
        d2 == IF args.priority # Null
              THEN dict_set(d1, "priority", Dict1("name", args.priority.text))
              ELSE IF truthy(source.priority)
              THEN dict_set(d1, "priority",
                            Dict1("name", getattr(source.priority, "name")))
              ELSE d1
        d3 == IF args.assignee # Null
              THEN dict_set(d2, "assignee", Dict1("name", args.assignee.text))
              ELSE IF truthy(source.assignee)
              THEN IF hasattr(source.assignee, "accountId")
                   THEN dict_set(d2, "assignee",
                                 Dict1("accountId", getattr(source.assignee, "accountId")))
                   ELSE IF hasattr(source.assignee, "key")
                   THEN dict_set(d2, "assignee",
                                 Dict1("key", getattr(source.assignee, "key")))
                   ELSE IF hasattr(source.assignee, "name")
                   THEN dict_set(d2, "assignee",
                                 Dict1("name", getattr(source.assignee, "name")))
                   ELSE d2
              ELSE d2
    IN  IF args.labels # Null THEN dict_set(d3, "labels", args.labels)
        ELSE IF truthy(source.labels) THEN dict_set(d3, "labels", source.labels)
        ELSE d3

\* Lines 465-529: the field set passed to create_issue.
clone_fields(args, source) ==
    merge_custom_fields(resolve_fields(args, source),
                        source_custom_fields(source), args.custom_fields)

\* The id of the i-th attachment of the source issue.
AttachmentId(i) == "att-" \o ToString(i)

\* A loop that goes on to the next attachment when a call raises.
RECURSIVE transfer_continues_after_failure(_, _, _)
transfer_continues_after_failure(attachments, fail_at, step) ==
    IF step > 2 * Len(attachments) THEN << >>
    ELSE LET i == (step + 1) \div 2
             e == Effect(IF step % 2 = 1 THEN "attachment" ELSE "add_attachment",
                         attachments[i])
         IN  IF step = fail_at
             THEN <<e>> \o transfer_continues_after_failure(attachments, fail_at, 2 * i + 1)
             ELSE <<e>> \o transfer_continues_after_failure(attachments, fail_at, step + 1)

\* Lines 569-577: the loop over the attachments, from step on.  Step 2i-1 is
\* self.client.attachment(id) for attachment i, step 2i is add_attachment
\* for it; the call that raises is the last one made.
RECURSIVE transfer(_, _, _)
transfer(attachments, fail_at, step) ==
    IF step > 2 * Len(attachments) THEN << >>
    ELSE LET i == (step + 1) \div 2
             e == Effect(IF step % 2 = 1 THEN "attachment" ELSE "add_attachment",
                         attachments[i])
         IN  IF step = fail_at THEN <<e>>
             ELSE <<e>> \o transfer(attachments, fail_at, step + 1)

\* A link step without the try/except around create_issue_link.
link_step_unguarded(args, env) ==
    [effects |-> IF args.add_link_to_source
                 THEN <<Effect("create_issue_link", "Cloned")>> ELSE << >>,
     raised |-> args.add_link_to_source /\ ~env.link_ok]

\* Lines 550-562: if args.add_link_to_source, create_issue_link inside a
\* try whose except logs a warning and goes on.
link_step(args, env) ==
    [effects |-> IF args.add_link_to_source
                 THEN <<Effect("create_issue_link", "Cloned")>> ELSE << >>,
     raised |-> FALSE]

\* An attachment step without the try/except around the loop.
attachment_step_unguarded(args, source, env) ==
    [effects |-> IF args.copy_attachments
                 THEN transfer(source.attachment, env.fail_at, 1) ELSE << >>,
     raised |-> /\ args.copy_attachments
                /\ env.fail_at \in 1..(2 * Len(source.attachment))]

\* Lines 565-580: if args.copy_attachments, the loop over
\* source_issue.fields.attachment inside a try whose except logs a warning
\* and goes on.
attachment_step(args, source, env) ==
    [effects |-> IF args.copy_attachments
                 THEN transfer(source.attachment, env.fail_at, 1) ELSE << >>,
     raised |-> FALSE]

\* Whether json.dumps can encode a dict: a raw remote object cannot be.
encodable(d) == \A i \in 1..Len(d) : d[i].v.kind # "obj"

\* self.client.create_issue(fields=issue_dict): the fields are encoded as
\* JSON for the request, and the remote service may refuse it.
create_answers(env, issue_dict) == env.create_ok /\ encodable(issue_dict)

\* The key the remote service gives the issue it creates.
NewKey == "NEW-1"

\* A clone_issue that copies the attachments before it creates the link.
clone_issue_copy_before_link(in) ==
    LET args == in.args
        source == in.source
        env == in.env
        connect == <<Effect("connect", "")>>
        fetch == connect \o <<Effect("issue", source.key)>>
        issue_dict == clone_fields(args, source)
        create == fetch \o <<Effect("create_issue", NewKey)>>
        link == link_step(args, env)
        copy == attachment_step(args, source, env)
        error(e, sent) ==
            [result |-> [shape |-> "error", message |-> "Error cloning issue"],
             effects |-> e, sent |-> sent]
    IN  IF ~env.connect_ok THEN error(connect, << >>)
        ELSE IF ~env.fetch_ok THEN error(fetch, << >>)
        ELSE IF ~create_answers(env, issue_dict) THEN error(create, issue_dict)
        ELSE [result |-> [shape |-> "success", key |-> NewKey,
                          custom_fields |-> source_custom_fields(source),
                          attachments_copied |-> args.copy_attachments,
                          link_added |-> args.add_link_to_source],
              effects |-> create \o copy.effects \o link.effects,
              sent |-> issue_dict]

\* A clone_issue that goes on when the source issue could not be fetched.
clone_issue_fetch_unchecked(in) ==
    LET args == in.args
        source == in.source
        env == in.env
        connect == <<Effect("connect", "")>>
        fetch == connect \o <<Effect("issue", source.key)>>
        issue_dict == clone_fields(args, source)
        create == fetch \o <<Effect("create_issue", NewKey)>>
        link == link_step(args, env)
        copy == IF link.raised THEN [effects |-> << >>, raised |-> FALSE]
                ELSE attachment_step(args, source, env)
        error(e, sent) ==
            [result |-> [shape |-> "error", message |-> "Error cloning issue"],
             effects |-> e, sent |-> sent]
    IN  IF ~env.connect_ok THEN error(connect, << >>)
        ELSE IF ~create_answers(env, issue_dict) THEN error(create, issue_dict)
        ELSE IF link.raised \/ copy.raised
             THEN error(create \o link.effects \o copy.effects, issue_dict)
        ELSE [result |-> [shape |-> "success", key |-> NewKey,
                          custom_fields |-> source_custom_fields(source),
                          attachments_copied |-> args.copy_attachments,
                          link_added |-> args.add_link_to_source],
              effects |-> create \o link.effects \o copy.effects,
              sent |-> issue_dict]

\* JiraClient.clone_issue: connect, fetch the source, build the field set,
\* create, link, copy the attachments, return the result dict; the outer
\* except turns whatever was raised outside the two inner try blocks into
\* {"error": "Error cloning issue: ..."}.  Returned with it: the calls made,
\* in order, and the field set passed to create_issue.
clone_issue(in) ==
    LET args == in.args
        source == in.source
        env == in.env
        connect == <<Effect("connect", "")>>
        fetch == connect \o <<Effect("issue", source.key)>>
        issue_dict == clone_fields(args, source)
        create == fetch \o <<Effect("create_issue", NewKey)>>
        link == link_step(args, env)
        copy == IF link.raised THEN [effects |-> << >>, raised |-> FALSE]
                ELSE attachment_step(args, source, env)
        error(e, sent) ==
            [result |-> [shape |-> "error", message |-> "Error cloning issue"],
             effects |-> e, sent |-> sent]
    IN  IF ~env.connect_ok THEN error(connect, << >>)
        ELSE IF ~env.fetch_ok THEN error(fetch, << >>)
        ELSE IF ~create_answers(env, issue_dict) THEN error(create, issue_dict)
        ELSE IF link.raised \/ copy.raised
             THEN error(create \o link.effects \o copy.effects, issue_dict)
        ELSE [result |-> [shape |-> "success", key |-> NewKey,
                          custom_fields |-> source_custom_fields(source),
                          attachments_copied |-> args.copy_attachments,
                          link_added |-> args.add_link_to_source],
              effects |-> create \o link.effects \o copy.effects,
              sent |-> issue_dict]

\* The overrides of the top-level fields a caller may pass (CloneIssueArgs:
\* a project key or summary that is given is not empty).
ArgOverrides ==
    [project_key : {Null, Str("TGT")},
     summary : {Null, Str("Mine")},
     description : {Null, Str("text")},
     issue_type : {Null, Str(""), Str("Bug")},
     priority : {Null, Str("Low")},
     assignee : {Null, Str("bob")},
     labels : {Null, List({}), List({"x"})}]

\* The fields are resolved one by one, each from its own argument and its
\* own source value: the overrides drawn vary project, summary and type
\* together, or description, priority, assignee and labels together.
DrawnOverrides ==
    {o \in ArgOverrides :
        \/ o.description = Null /\ o.priority = Null /\ o.assignee = Null
              /\ o.labels = Null
        \/ o.project_key = Null /\ o.summary = Null /\ o.issue_type = Null}

NoOverrides ==
    [project_key |-> Null, summary |-> Null, description |-> Null,
     issue_type |-> Null, priority |-> Null, assignee |-> Null, labels |-> Null]

AllOverrides ==
    [project_key |-> Str("TGT"), summary |-> Str("Mine"), description |-> Str("text"),
     issue_type |-> Str("Bug"), priority |-> Str("Low"), assignee |-> Str("bob"),
     labels |-> List({"x"})]

\* The custom_fields dicts a caller may pass: any key, any value.
CustomFieldArgs ==
    {<< >>,
     <<[k |-> "customfield_10001", v |-> Str("override")]>>,
     <<[k |-> "customfield_10001", v |-> Null]>>,
     <<[k |-> "customfield_10003", v |-> Str("override")]>>,
     <<[k |-> "summary", v |-> Str("Other")]>>,
     <<[k |-> "customfield_10002", v |-> Str("override")],
       [k |-> "priority", v |-> Dict1("name", "Other")]>>}

CloneIssueArgs(overrides, custom_fields, copy, link) ==
    overrides @@ [source_issue_key |-> "SRC-1", custom_fields |-> custom_fields,
                  copy_attachments |-> copy, add_link_to_source |-> link]

\* What the source issue may hold in the fields the clone resolves.
SourceFields ==
    [description : {Null, Str("steps")},
     priority : {Missing, Null, ObjT({"name"}, "High")},
     assignee : {Null, ObjT({"accountId", "key", "name"}, "ann"),
                 ObjT({"key", "name"}, "ann"), ObjT({"name"}, "ann"),
                 ObjT({"displayName"}, "ann")},
     labels : {Missing, List({}), List({"a"})}]

PlainSource ==
    [description |-> Null, priority |-> Null, assignee |-> Null, labels |-> List({})]

\* The values a custom field of the source issue may have.
CustomValues ==
    {Null, Str(""), Str("raw"), ObjT({"id", "value", "name"}, "opt"),
     ObjT({"value", "name"}, "opt"), ObjT({"name"}, "opt"),
     ObjT({"displayName"}, "opt")}

\* The other attributes of source_issue.fields in the order of dir(): two
\* custom fields and one field that is not a custom field.
ExtraFields ==
    {<<[k |-> "components", v |-> Str("raw")],
       [k |-> "customfield_10001", v |-> v1],
       [k |-> "customfield_10002", v |-> v2]>> : v1 \in CustomValues, v2 \in CustomValues}

NoExtraFields == <<[k |-> "components", v |-> Str("raw")]>>

SourceIssue(fields, extra, n) ==
    fields @@ [key |-> "SRC-1", project |-> "SRC", summary |-> "Fix bug",
               issuetype |-> "Task", extra |-> extra,
               attachment |-> [i \in 1..n |-> AttachmentId(i)]]

\* The remote service answers every call.
AllOk == [connect_ok |-> TRUE, fetch_ok |-> TRUE, create_ok |-> TRUE,
          link_ok |-> TRUE, fail_at |-> 0]

InitClone ==
    /\ config \in {c \in JiraConfig : c.complete /\ c.rate_limit_calls = 1
                                       /\ c.rate_limit_period = 1}
    /\ now = 0
    /\ bucket = NoBucket
    /\ acqLog = << >>
    /\ limiter = << >>
    /\ gate = NoGate
    /\ performed = NoCount
    /\ granted = NoCount
    /\ threads = NoThreads
    /\ handlerLog = << >>
    /\ response = NoResponse
    /\ searchIn = NoSearch
    /\ searchOut = NoSearch
    /\ effects = << >>
    /\ \/ \E overrides \in DrawnOverrides, fields \in SourceFields :
             cloneIn = [args |-> CloneIssueArgs(overrides, << >>, FALSE, TRUE),
                        source |-> SourceIssue(fields, NoExtraFields, 0),
                        env |-> AllOk]
       \/ \E overrides \in {NoOverrides, AllOverrides},
             custom_fields \in CustomFieldArgs, extra \in ExtraFields :
             cloneIn = [args |-> CloneIssueArgs(overrides, custom_fields, FALSE, TRUE),
                        source |-> SourceIssue(PlainSource, extra, 0),
                        env |-> AllOk]
       \/ \E copy \in BOOLEAN, link \in BOOLEAN, n \in 0..MaxAttachments,
             connect_ok \in BOOLEAN, fetch_ok \in BOOLEAN, create_ok \in BOOLEAN,
             link_ok \in BOOLEAN :
             \E fail_at \in 0..(2 * n) :
                cloneIn = [args |-> CloneIssueArgs(NoOverrides, << >>, copy, link),
                           source |-> SourceIssue(PlainSource, NoExtraFields, n),
                           env |-> [connect_ok |-> connect_ok, fetch_ok |-> fetch_ok,
                                    create_ok |-> create_ok, link_ok |-> link_ok,
                                    fail_at |-> fail_at]]
    /\ cloneOut = NoClone
    /\ opIn = NoOp
    /\ opOut = NoOp

\* The clone_issue handler: the wrapped client.clone_issue(args) is called
\* on a new client (the wrapper's acquire(), then the method), and the
\* result is encoded inside the handler's try.
Clone ==
    /\ cloneOut = NoClone
    /\ LET out == clone_issue(cloneIn)
           ok == out.result.shape = "success"
           encoded == json_dumps(
               [shape |-> out.result.shape,
                serializable |-> ok => encodable(out.result.custom_fields),
                message |-> IF ok THEN "" ELSE out.result.message])
       IN  /\ cloneOut' = [result |-> out.result, sent |-> out.sent]
           /\ effects' = <<Effect("acquire", "clone_issue")>> \o out.effects
           /\ response' = [n |-> 1, op |-> "clone_issue",
                           failure |-> IF ~ok THEN "remote"
                                       ELSE IF encoded.raised THEN "encoding"
                                       ELSE "none",
                           kind |-> "bytes",
                           shape |-> IF encoded.raised THEN "error"
                                     ELSE encoded.val.shape,
                           message |-> IF encoded.raised THEN encoded.val
                                       ELSE encoded.val.message]
    /\ UNCHANGED <<config, now, threads, limiterVars, gateVars, handlerLog,
                   searchVars, cloneIn, opVars>>

NextClone == Clone

SpecClone == InitClone /\ [][NextClone]_vars

\* create_issue was called with a field set.
Created == cloneOut # NoClone /\ cloneOut.sent # << >>

Calls == {effects[i].call : i \in 1..Len(effects)}

\* C11: in the field set sent to create, summary is the caller's summary if
\* supplied, else "Clone of " + the source's summary; project is the
\* caller's project key if supplied, else the source's project; issuetype is
\* the caller's type if supplied, else the source's type; priority and labels
\* are the caller's value if not null (an empty labels list is sent as an
\* empty list), else the source's value.
C11_OverrideOrInherit ==
    Created =>
        LET a == cloneIn.args
            src == cloneIn.source
            d == cloneOut.sent
        IN  /\ dict_has(d, "summary") /\ dict_has(d, "project") /\ dict_has(d, "issuetype")
            /\ dict_get(d, "summary")
                  = IF truthy(a.summary) THEN a.summary
                    ELSE Str("Clone of " \o src.summary)
            /\ dict_get(d, "project")
                  = IF truthy(a.project_key) THEN a.project_key ELSE Str(src.project)
            /\ dict_get(d, "issuetype")
                  = IF truthy(a.issue_type) THEN Dict1("name", a.issue_type.text)
                    ELSE Dict1("name", src.issuetype)
            /\ a.priority # Null
                  => /\ dict_has(d, "priority")
                     /\ dict_get(d, "priority") = Dict1("name", a.priority.text)
            /\ (a.priority = Null /\ truthy(src.priority))
                  => /\ dict_has(d, "priority")
                     /\ dict_get(d, "priority") = Dict1("name", src.priority.text)
            /\ a.labels # Null
                  => dict_has(d, "labels") /\ dict_get(d, "labels") = a.labels
            /\ (a.labels = Null /\ truthy(src.labels))
                  => dict_has(d, "labels") /\ dict_get(d, "labels") = src.labels

\* C12: for description, priority, assignee and labels, when the caller
\* gave no value and the source issue has none, the field set sent to create
\* has no entry for the field.
C12_AbsentWhenNeitherHasValue ==
    Created =>
        \A f \in {"description", "priority", "assignee", "labels"} :
            (cloneIn.args[f] = Null /\ ~truthy(cloneIn.source[f]))
                => ~dict_has(cloneOut.sent, f)

\* The custom fields of the source issue that are not None.
SourceExtension ==
    {e \in Range(cloneIn.source.extra) :
        startswith(e.k, "customfield_") /\ e.v # Null}

\* C13: the extension set taken from the source issue (returned under
\* source_issue.custom_fields) has exactly the source fields whose name
\* starts with customfield_ and whose value is not null; a value with an id
\* is kept as {id}, else one with a value as {value}, else one with a name as
\* {name}, else the raw value.
C13_ExtensionSetNormalized ==
    (cloneOut # NoClone /\ cloneOut.result.shape = "success") =>
        LET x == cloneOut.result.custom_fields IN
        /\ Range(dict_keys(x)) = {e.k : e \in SourceExtension}
        /\ \A e \in SourceExtension :
              LET has(a) == e.v.kind = "obj" /\ a \in e.v.attrs
                  out == dict_get(x, e.k)
              IN  /\ has("id") => out = Dict1("id", e.v.text \o ".id")
                  /\ (~has("id") /\ has("value"))
                        => out = Dict1("value", e.v.text \o ".value")
                  /\ (~has("id") /\ ~has("value") /\ has("name"))
                        => out = Dict1("name", e.v.text)
                  /\ (~has("id") /\ ~has("value") /\ ~has("name")) => out = e.v

\* C13 witness: one custom field exposing id, value and name, kept as {id},
\* and one exposing only a name, kept as {name}.
C13_Witness ==
    /\ cloneOut # NoClone
    /\ cloneOut.result.shape = "success"
    /\ Len(cloneIn.source.extra) = 3
    /\ cloneIn.source.extra[2].v = ObjT({"id", "value", "name"}, "opt")
    /\ cloneIn.source.extra[3].v = ObjT({"name"}, "opt")
    /\ dict_get(cloneOut.result.custom_fields, "customfield_10001") = Dict1("id", "opt.id")
    /\ dict_get(cloneOut.result.custom_fields, "customfield_10002") = Dict1("name", "opt")

\* C14: in the field set sent to create, every key of the caller's
\* custom_fields has the caller's value, and every custom field of the
\* source that the caller did not name has the normalized source value.
C14_OverrideWinsPerKey ==
    Created =>
        LET d == cloneOut.sent
            overrides == cloneIn.args.custom_fields
        IN  /\ \A o \in Range(overrides) : dict_has(d, o.k) /\ dict_get(d, o.k) = o.v
            /\ \A e \in SourceExtension :
                  e.k \notin Range(dict_keys(overrides))
                      => /\ dict_has(d, e.k)
                         /\ dict_get(d, e.k)
                               = IF e.v.kind # "obj" THEN e.v
                                 ELSE IF "id" \in e.v.attrs THEN Dict1("id", e.v.text \o ".id")
                                 ELSE IF "value" \in e.v.attrs
                                      THEN Dict1("value", e.v.text \o ".value")
                                 ELSE IF "name" \in e.v.attrs THEN Dict1("name", e.v.text)
                                 ELSE e.v

\* C14 witness: the caller overrides a custom field the source has a value
\* for, and the source has another custom field the caller does not name.
C14_Witness ==
    /\ Created
    /\ cloneIn.args.custom_fields = <<[k |-> "customfield_10001", v |-> Str("override")]>>
    /\ Len(cloneIn.source.extra) = 3
    /\ cloneIn.source.extra[2].v = ObjT({"value", "name"}, "opt")
    /\ cloneIn.source.extra[3].v = ObjT({"value", "name"}, "opt")
    /\ dict_get(cloneOut.sent, "customfield_10001") = Str("override")
    /\ dict_get(cloneOut.sent, "customfield_10002") = Dict1("value", "opt.value")

\* The remote service answered connect, the fetch of the source and create.
CreateAnswered ==
    /\ cloneOut # NoClone
    /\ cloneIn.env.connect_ok /\ cloneIn.env.fetch_ok
    /\ create_answers(cloneIn.env, cloneOut.sent)

\* C15: when add_link_to_source is set and creating the "Cloned" link fails
\* after the new issue was created, clone_issue returns the success result
\* of the new issue with link_added = true.
C15_LinkFailureNotFatal ==
    (CreateAnswered /\ cloneIn.args.add_link_to_source /\ ~cloneIn.env.link_ok) =>
        /\ cloneOut.result.shape = "success"
        /\ cloneOut.result.key = NewKey
        /\ cloneOut.result.link_added = TRUE
        /\ \E i \in 1..Len(effects) : \E j \in (i + 1)..Len(effects) :
              /\ effects[i].call = "create_issue"
              /\ effects[j] = Effect("create_issue_link", "Cloned")

\* C15 witness: the link was asked for and failed, the clone succeeded.
C15_Witness ==
    /\ CreateAnswered
    /\ cloneIn.args.add_link_to_source
    /\ ~cloneIn.env.link_ok
    /\ "create_issue_link" \in Calls
    /\ cloneOut.result.shape = "success"
    /\ cloneOut.result.link_added = TRUE

\* C16: when copy_attachments is set, the attachments are fetched whether
\* the link step succeeded, failed or was not asked for, and a fetch or
\* upload that fails leaves the clone result a success.
C16_LinkAndCopyIndependent ==
    (CreateAnswered /\ cloneIn.args.copy_attachments) =>
        /\ cloneOut.result.shape = "success"
        /\ cloneOut.result.key = NewKey
        /\ cloneIn.source.attachment # << >>
              => /\ Effect("attachment", AttachmentId(1)) \in Range(effects)
                 /\ cloneIn.env.fail_at # 1
                       => Effect("add_attachment", AttachmentId(1)) \in Range(effects)

\* C16 witness: the link failed, the copy was still started, an upload
\* failed, and the clone succeeded.
C16_Witness ==
    /\ CreateAnswered
    /\ cloneIn.args.copy_attachments
    /\ cloneIn.args.add_link_to_source
    /\ ~cloneIn.env.link_ok
    /\ cloneIn.env.fail_at = 2
    /\ "attachment" \in Calls
    /\ cloneOut.result.shape = "success"

\* C19: when the source issue cannot be fetched, clone_issue returns the
\* error result and calls neither create_issue, nor create_issue_link, nor
\* attachment or add_attachment.
C19_SourceNotFound ==
    (cloneOut # NoClone /\ cloneIn.env.connect_ok /\ ~cloneIn.env.fetch_ok) =>
        /\ cloneOut.result.shape = "error"
        /\ cloneOut.sent = << >>
        /\ Calls \cap {"create_issue", "create_issue_link", "attachment",
                        "add_attachment"} = {}
        /\ effects[Len(effects)] = Effect("issue", cloneIn.source.key)

\* C19 witness: the fetch failed on a clone that asked for the link and for
\* the attachments of a source that has some.
C19_Witness ==
    /\ cloneOut # NoClone
    /\ cloneIn.env.connect_ok
    /\ ~cloneIn.env.fetch_ok
    /\ cloneIn.env.create_ok
    /\ cloneIn.args.add_link_to_source
    /\ cloneIn.args.copy_attachments
    /\ cloneIn.source.attachment # << >>
    /\ cloneOut.result.shape = "error"

\* Where in the log of the clone the calls named c are.
Positions(c) == {i \in 1..Len(effects) : effects[i].call = c}

\* C23: the remote calls of one clone are made one after the other in a
\* fixed order: the fetch of the source before create, create before the
\* link, the link before any attachment call, and the download of each
\* attachment right before its upload; each call has returned or raised
\* before the next is made.
C23_StepsInOrder ==
    cloneOut # NoClone =>
        LET copies == Positions("attachment") \cup Positions("add_attachment") IN
        /\ \A c \in {"issue", "create_issue", "create_issue_link"} :
              Cardinality(Positions(c)) <= 1
        /\ \A j \in Positions("create_issue") : \E i \in Positions("issue") : i < j
        /\ \A j \in Positions("create_issue_link") :
              \E i \in Positions("create_issue") : i < j
        /\ \A j \in copies :
              /\ \E i \in Positions("create_issue") : i < j
              /\ \A i \in Positions("create_issue_link") : i < j
        /\ \A j \in Positions("add_attachment") :
              effects[j - 1] = Effect("attachment", effects[j].arg)
        /\ \A i \in Positions("attachment") : \A j \in Positions("attachment") :
              (i < j /\ effects[i].arg # effects[j].arg)
                  => \E u \in Positions("add_attachment") :
                         i < u /\ u < j /\ effects[u].arg = effects[i].arg

\* C23 witness: a clone that fetched, created, linked and copied every
\* attachment of a source that has more than one.
C23_Witness ==
    /\ cloneOut # NoClone
    /\ Len(cloneIn.source.attachment) >= 2
    /\ Positions("create_issue_link") # {}
    /\ Cardinality(Positions("add_attachment")) = Len(cloneIn.source.attachment)
    /\ cloneOut.result.shape = "success"

\* C24: the fetch of the source and the create each run their own
\* acquire() before the remote call is made, so a clone that fetches and
\* creates takes at least two credits.
C24_EachRemoteCallAcquires ==
    cloneOut # NoClone =>
        /\ \A i \in Positions("issue") :
              Cardinality({a \in Positions("acquire") : a < i}) >= 1
        /\ \A i \in Positions("create_issue") :
              Cardinality({a \in Positions("acquire") : a < i}) >= 2

\* C25: link_added and attachments_copied report how the step went: for
\* the same arguments the flag of a step that failed differs from the flag
\* of the step when it succeeded.
C25_FlagsReportOutcome ==
    (cloneOut # NoClone /\ cloneOut.result.shape = "success") =>
        /\ cloneOut.result.link_added
              = (cloneIn.args.add_link_to_source /\ cloneIn.env.link_ok)
        /\ cloneOut.result.attachments_copied
              = (cloneIn.args.copy_attachments /\ cloneIn.env.fail_at = 0)

\* C27: a clone that answers with an error has created no issue: once
\* create_issue succeeded, the method returns the success result with the
\* new key and the handler answers with it, whatever fails afterwards.
C27_ErrorMeansNothingCreated ==
    CreateAnswered =>
        /\ cloneOut.result.shape = "success"
        /\ cloneOut.result.key = NewKey
        /\ response.shape = "success"

\* C28: custom_fields only affect custom fields: project, summary,
\* issuetype, description, priority, assignee and labels are sent to create
\* exactly as lines 465-503 resolved them, and every other key sent starts
\* with customfield_.
C28_OverridesOnlyCustomFields ==
    Created =>
        LET resolved == resolve_fields(cloneIn.args, cloneIn.source)
            TopLevel == {"project", "summary", "issuetype", "description",
                         "priority", "assignee", "labels"}
        IN  /\ \A f \in TopLevel :
                  /\ dict_has(cloneOut.sent, f) = dict_has(resolved, f)
                  /\ dict_has(resolved, f)
                        => dict_get(cloneOut.sent, f) = dict_get(resolved, f)
            /\ \A k \in Range(dict_keys(cloneOut.sent)) \ TopLevel :
                  startswith(k, "customfield_")

\* The ids of the attachments whose upload was made and did not fail.
Uploaded ==
    LET ups == SelectSeq(effects, LAMBDA e : e.call = "add_attachment")
        failed == cloneIn.env.fail_at # 0 /\ cloneIn.env.fail_at % 2 = 0
                    /\ cloneIn.env.fail_at <= 2 * Len(cloneIn.source.attachment)
        n == IF failed THEN Len(ups) - 1 ELSE Len(ups)
    IN  [i \in 1..n |-> ups[i].arg]

\* C29: with copy_attachments set, the attachments uploaded to the new
\* issue are a prefix of the source's attachment list, each once and in
\* order; the whole list when no transfer fails; after the first download
\* or upload that fails no further attachment call is made.
C29_UploadsArePrefix ==
    (CreateAnswered /\ cloneIn.args.copy_attachments) =>
        LET atts == cloneIn.source.attachment
            fail_at == cloneIn.env.fail_at
            copies == Positions("attachment") \cup Positions("add_attachment")
        IN  /\ Len(Uploaded) <= Len(atts)
            /\ Uploaded = SubSeq(atts, 1, Len(Uploaded))
            /\ fail_at = 0 => Uploaded = atts
            /\ fail_at # 0
                  => /\ Cardinality(copies) = fail_at
                     /\ Len(Uploaded) = (fail_at - 1) \div 2
                     /\ copies # {} => \A i \in 1..Len(effects) : i \in copies
                                          \/ \E j \in copies : i < j

\* C29 witness: the download of the second attachment failed after the
\* first was uploaded, and a third was never asked for.
C29_Witness ==
    /\ CreateAnswered
    /\ cloneIn.args.copy_attachments
    /\ Len(cloneIn.source.attachment) >= 2
    /\ cloneIn.env.fail_at = 3
    /\ Uploaded = <<AttachmentId(1)>>
    /\ effects[Len(effects)] = Effect("attachment", AttachmentId(2))

(***************************************************************************)
(* SpecGet: JiraClient.get_issue called through its wrapper on a new       *)
(* client                                                                  *)
(***************************************************************************)
\* value.<a>: the attribute of a remote object; reading it on None or on an
\* object that lacks it raises AttributeError.
attr(value, a) == IF hasattr(value, a) THEN Str(getattr(value, a)) ELSE Raised

\* `value.<a> if value else None`
attr_if(value, a) == IF truthy(value) THEN attr(value, a) ELSE Null

\* JiraClient.get_issue: connect (which raises when it fails), fetch the
\* issue, build the result dict; the except turns whatever was raised into {"error": "Error getting
\* issue: ..."}.
get_issue(in) ==
    LET f == in.issue
        d == <<[k |-> "key", v |-> Str(in.issue_key)],
               [k |-> "summary", v |-> f.summary],
               [k |-> "description", v |-> f.description],
               [k |-> "status", v |-> attr(f.status, "name")],
               [k |-> "assignee", v |-> attr_if(f.assignee, "displayName")],
               [k |-> "reporter", v |-> attr_if(f.reporter, "displayName")],
               [k |-> "issue_type", v |-> attr(f.issuetype, "name")],
               [k |-> "priority", v |-> attr_if(f.priority, "name")]>>
    IN  IF ~in.connect_ok \/ ~in.found \/ \E i \in 1..Len(d) : d[i].v = Raised
        THEN [shape |-> "error", message |-> "Error getting issue", fields |-> << >>]
        ELSE [shape |-> "success", message |-> "", fields |-> d]

\* The issues the remote service may hold: each sub-object there or null.
RemoteIssues ==
    [summary : {Str("Fix bug")},
     description : {Null, Str("steps")},
     status : {Null, ObjT({"name"}, "Open")},
     issuetype : {Null, ObjT({"name"}, "Task")},
     assignee : {Null, ObjT({"name", "displayName"}, "ann")},
     reporter : {Null, ObjT({"name", "displayName"}, "bob")},
     priority : {Null, ObjT({"name"}, "High")}]

InitGet ==
    /\ config \in {c \in JiraConfig : c.complete /\ c.rate_limit_calls = 1
                                       /\ c.rate_limit_period = 1}
    /\ now = 0
    /\ bucket = NoBucket
    /\ acqLog = << >>
    /\ limiter = << >>
    /\ gate = NoGate
    /\ performed = NoCount
    /\ granted = NoCount
    /\ threads = NoThreads
    /\ handlerLog = << >>
    /\ response = NoResponse
    /\ searchIn = NoSearch
    /\ searchOut = NoSearch
    /\ effects = << >>
    /\ cloneIn = NoClone
    /\ cloneOut = NoClone
    /\ \E issue \in RemoteIssues, found \in BOOLEAN, connect_ok \in BOOLEAN :
          opIn = [op |-> "get_issue", issue_key |-> "PROJ-1", issue |-> issue,
                  found |-> found, connect_ok |-> connect_ok]
    /\ opOut = NoOp

\* The get_issue handler: the wrapped client.get_issue(issue_key) on a new
\* client, then json.dumps of what it returned.
Get ==
    /\ opOut = NoOp
    /\ LET out == get_issue(opIn)
           encoded == json_dumps([shape |-> out.shape, serializable |-> TRUE,
                                  message |-> out.message])
       IN  /\ opOut' = out
           /\ effects' = <<Effect("acquire", "get_issue"), Effect("connect", "")>>
                            \o (IF opIn.connect_ok
                                THEN <<Effect("issue", opIn.issue_key)>> ELSE << >>)
           /\ response' = [n |-> 1, op |-> "get_issue",
                           failure |-> IF out.shape = "error" THEN "remote" ELSE "none",
                           kind |-> "bytes", shape |-> encoded.val.shape,
                           message |-> encoded.val.message]
    /\ UNCHANGED <<config, now, threads, limiterVars, gateVars, handlerLog,
                   searchVars, cloneIn, cloneOut, opIn>>

NextGet == Get

SpecGet == InitGet /\ [][NextGet]_vars

\* C26: get_issue degrades a missing sub-object to null: for an issue that
\* was found, whose status, issue type, assignee, reporter or priority is
\* null, the result is the success result with null for that field; only an
\* issue that is not found gives the error result.
C26_GetDegradesToNull ==
    (opOut # NoOp /\ opIn.connect_ok) =>
        /\ opOut.shape = "error" <=> ~opIn.found
        /\ opOut.shape = "success"
              => /\ opIn.issue.status = Null => dict_get(opOut.fields, "status") = Null
                 /\ opIn.issue.issuetype = Null
                       => dict_get(opOut.fields, "issue_type") = Null
                 /\ opIn.issue.assignee = Null
                       => dict_get(opOut.fields, "assignee") = Null
                 /\ opIn.issue.reporter = Null
                       => dict_get(opOut.fields, "reporter") = Null
                 /\ opIn.issue.priority = Null
                       => dict_get(opOut.fields, "priority") = Null

(***************************************************************************)
(* SpecUpdate: JiraClient.update_issue called through its wrapper on a new *)
(* client                                                                  *)
(***************************************************************************)
\* A dict argument with its entries in order.
PyDict(items) == [kind |-> "dict", text |-> "", attrs |-> {}, items |-> items]

\* One remote call of update_issue with the fields it sends.
Step(call, step, fields) == [call |-> call, step |-> step, fields |-> fields]

\* Lines 240-248: update_dict takes each standard field whose argument is
\* not None; priority and assignee are wrapped as {'name': value}.
update_dict(args) ==
    LET d1 == IF args.summary # Null
              THEN dict_set(<< >>, "summary", args.summary) ELSE << >>
        d2 == IF args.description # Null
              THEN dict_set(d1, "description", args.description) ELSE d1
        d3 == IF args.priority # Null
              THEN dict_set(d2, "priority", Dict1("name", args.priority.text)) ELSE d2
    IN  IF args.assignee # Null
        THEN dict_set(d3, "assignee", Dict1("name", args.assignee.text)) ELSE d3

\* An update_issue that sends the custom fields before the standard fields.
update_steps_custom_first(args) ==
    (IF args.custom_fields.kind = "dict" /\ args.custom_fields.items # << >>
     THEN <<Step("update", "custom", args.custom_fields.items)>> ELSE << >>)
    \o (IF update_dict(args) # << >>
        THEN <<Step("update", "standard", update_dict(args))>> ELSE << >>)
    \o (IF args.labels # Null
        THEN <<Step("update", "labels", <<[k |-> "labels", v |-> args.labels]>>)>>
        ELSE << >>)
    \o (IF truthy(args.comment)
        THEN <<Step("add_comment", "comment", <<[k |-> "body", v |-> args.comment]>>)>>
        ELSE << >>)

\* Lines 250-265: the remote calls update_issue makes between the two
\* fetches, in order: `if update_dict`, `if labels is not None`,
\* `if comment`, `if custom_fields`.
update_steps(args) ==
    (IF update_dict(args) # << >>
     THEN <<Step("update", "standard", update_dict(args))>> ELSE << >>)
    \o (IF args.labels # Null
        THEN <<Step("update", "labels", <<[k |-> "labels", v |-> args.labels]>>)>>
        ELSE << >>)
    \o (IF truthy(args.comment)
        THEN <<Step("add_comment", "comment", <<[k |-> "body", v |-> args.comment]>>)>>
        ELSE << >>)
    \o (IF args.custom_fields.kind = "dict" /\ args.custom_fields.items # << >>
        THEN <<Step("update", "custom", args.custom_fields.items)>> ELSE << >>)

\* The remote issue after a call that succeeded: issue.update(fields=...)
\* replaces the named fields, issue.add_comment appends a comment.
RECURSIVE apply_fields(_, _, _)
apply_fields(issue, fields, i) ==
    IF i > Len(fields) THEN issue
    ELSE LET e == fields[i]
             value == IF e.k = "priority" THEN ObjT({"name"}, e.v.text)
                      ELSE IF e.k = "assignee"
                      THEN ObjT({"name", "displayName"}, e.v.text)
                      ELSE e.v
         IN  apply_fields([issue EXCEPT !.fields = dict_set(@, e.k, value)],
                          fields, i + 1)

apply_step(issue, step) ==
    IF step.call = "add_comment"
    THEN [issue EXCEPT !.comments = Append(@, step.fields[1].v)]
    ELSE apply_fields(issue, step.fields, 1)

\* The calls of steps from i on, each fully done before the next; the call
\* that raises changes nothing and ends the run.
RECURSIVE run_steps(_, _, _, _, _)
run_steps(issue, steps, i, fail, calls) ==
    IF i > Len(steps) THEN [issue |-> issue, calls |-> calls, raised |-> FALSE]
    ELSE IF steps[i].step = fail
    THEN [issue |-> issue, calls |-> Append(calls, steps[i]), raised |-> TRUE]
    ELSE run_steps(apply_step(issue, steps[i]), steps, i + 1, fail,
                   Append(calls, steps[i]))

\* Lines 268-282: the result built from the issue fetched again.
updated_result(issue, comment) ==
    LET f == issue.fields
    IN  <<[k |-> "key", v |-> Str(issue.key)],
          [k |-> "summary", v |-> dict_get(f, "summary")],
          [k |-> "description", v |-> dict_get(f, "description")],
          [k |-> "status", v |-> attr(dict_get(f, "status"), "name")],
          [k |-> "assignee", v |-> attr_if(dict_get(f, "assignee"), "displayName")],
          [k |-> "reporter", v |-> attr_if(dict_get(f, "reporter"), "displayName")],
          [k |-> "issue_type", v |-> attr(dict_get(f, "issuetype"), "name")],
          [k |-> "priority", v |-> attr_if(dict_get(f, "priority"), "name")],
          [k |-> "labels", v |-> dict_get(f, "labels")],
          [k |-> "comment_added", v |-> Str(IF truthy(comment) THEN "true" ELSE "false")]>>

\* JiraClient.update_issue: connect, fetch the issue, make the calls of
\* update_steps, fetch the issue again and build the result; whatever is
\* raised on the way becomes {"error": "Error updating issue: ..."}.
\* Returns the result, the calls made and the issue as the remote service
\* then holds it.
update_issue(in) ==
    LET error == [shape |-> "error", message |-> "Error updating issue",
                  fields |-> << >>]
    IN  IF in.fail \in {"connect", "fetch"}
        THEN [result |-> error, calls |-> << >>, remote |-> in.issue,
              fetches |-> IF in.fail = "fetch" THEN 1 ELSE 0]
        ELSE LET run == run_steps(in.issue, update_steps(in.args), 1, in.fail, << >>)
                 d == updated_result(run.issue, in.args.comment)
             IN  IF run.raised
                 THEN [result |-> error, calls |-> run.calls, remote |-> run.issue,
                       fetches |-> 1]
                 ELSE IF in.fail = "refetch" \/ \E i \in 1..Len(d) : d[i].v = Raised
                 THEN [result |-> error, calls |-> run.calls, remote |-> run.issue,
                       fetches |-> 2]
                 ELSE [result |-> [shape |-> "success", message |-> "", fields |-> d],
                       calls |-> run.calls, remote |-> run.issue, fetches |-> 2]

\* The arguments the handler passes on: arguments.get(...) gives None for
\* what the caller left out.
UpdateArgs ==
    [summary : {Null, Str(""), Str("New title")},
     description : {Null, Str("New text")},
     priority : {Null, Str("Low")},
     assignee : {Null, Str("cy")},
     labels : {Null, List({}), List({"x"})},
     comment : {Null, Str(""), Str("note")},
     custom_fields : {Null, PyDict(<< >>),
                      PyDict(<<[k |-> "customfield_10001", v |-> Str("extra")]>>)}]

\* The issue on the remote service before the update.
IssueBefore(status) ==
    [key |-> "PROJ-1",
     fields |-> <<[k |-> "summary", v |-> Str("Fix bug")],
                  [k |-> "description", v |-> Str("steps")],
                  [k |-> "status", v |-> status],
                  [k |-> "issuetype", v |-> ObjT({"name"}, "Task")],
                  [k |-> "assignee", v |-> ObjT({"name", "displayName"}, "ann")],
                  [k |-> "reporter", v |-> ObjT({"name", "displayName"}, "bob")],
                  [k |-> "priority", v |-> ObjT({"name"}, "High")],
                  [k |-> "labels", v |-> List({"a"})]>>,
     comments |-> << >>]

\* The call of an update_issue that raises, if any.
UpdateFailures ==
    {"none", "connect", "fetch", "standard", "labels", "comment", "custom", "refetch"}

InitUpdate ==
    /\ config \in {c \in JiraConfig : c.complete /\ c.rate_limit_calls = 1
                                       /\ c.rate_limit_period = 1}
    /\ now = 0
    /\ bucket = NoBucket
    /\ acqLog = << >>
    /\ limiter = << >>
    /\ gate = NoGate
    /\ performed = NoCount
    /\ granted = NoCount
    /\ threads = NoThreads
    /\ handlerLog = << >>
    /\ response = NoResponse
    /\ searchIn = NoSearch
    /\ searchOut = NoSearch
    /\ effects = << >>
    /\ cloneIn = NoClone
    /\ cloneOut = NoClone
    /\ \E args \in UpdateArgs, fail \in UpdateFailures,
          status \in {Null, ObjT({"name"}, "Open")} :
          opIn = [op |-> "update_issue", issue_key |-> "PROJ-1", args |-> args,
                  issue |-> IssueBefore(status), fail |-> fail]
    /\ opOut = NoOp

\* The update_issue handler: the wrapped client.update_issue(...) on a new
\* client, then json.dumps of what it returned.
Update ==
    /\ opOut = NoOp
    /\ LET out == update_issue(opIn)
           encoded == json_dumps([shape |-> out.result.shape, serializable |-> TRUE,
                                  message |-> out.result.message])
       IN  /\ opOut' = out
           /\ effects' = <<Effect("acquire", "update_issue"), Effect("connect", "")>>
                            \o (IF out.fetches >= 1
                                THEN <<Effect("issue", opIn.issue_key)>> ELSE << >>)
                            \o [i \in 1..Len(out.calls) |->
                                   Effect(out.calls[i].call, out.calls[i].step)]
                            \o (IF out.fetches = 2
                                THEN <<Effect("issue", opIn.issue_key)>> ELSE << >>)
           /\ response' = [n |-> 1, op |-> "update_issue",
                           failure |-> IF out.result.shape = "error"
                                       THEN "remote" ELSE "none",
                           kind |-> "bytes", shape |-> encoded.val.shape,
                           message |-> encoded.val.message]
    /\ UNCHANGED <<config, now, threads, limiterVars, gateVars, handlerLog,
                   searchVars, cloneIn, cloneOut, opIn>>

NextUpdate == Update

SpecUpdate == InitUpdate /\ [][NextUpdate]_vars

StandardFields == {"summary", "description", "priority", "assignee"}

\* The place of a call in the order standard fields, labels, comment,
\* custom fields.
StepRank(step) ==
    CASE step = "standard" -> 1
      [] step = "labels" -> 2
      [] step = "comment" -> 3
      [] step = "custom" -> 4

\* The remote issue holds what the call sent.
Applied(c) ==
    IF c.call = "add_comment"
    THEN \E n \in 1..Len(opOut.remote.comments) :
             opOut.remote.comments[n] = c.fields[1].v
    ELSE \A j \in 1..Len(c.fields) :
             /\ dict_has(opOut.remote.fields, c.fields[j].k)
             /\ dict_get(opOut.remote.fields, c.fields[j].k).text = c.fields[j].v.text
             /\ c.fields[j].k \in {"summary", "description", "labels"}
                   => dict_get(opOut.remote.fields, c.fields[j].k) = c.fields[j].v

\* C30: update_issue sends only the fields whose argument is not null, in
\* the order standard fields (summary, description, priority and assignee
\* in one call), labels, comment, custom fields; it is not atomic: when a
\* later call fails the result is the error result and what the earlier
\* calls changed stays on the remote issue; with no field supplied it makes
\* no update call.
C30_UpdateStepsInOrderNotAtomic ==
    opOut # NoOp =>
        LET calls == opOut.calls
            args == opIn.args
        IN  /\ \A i \in 1..Len(calls) :
                  /\ calls[i].step = "standard"
                        => /\ \A j \in 1..Len(calls[i].fields) :
                                  /\ calls[i].fields[j].k \in StandardFields
                                  /\ args[calls[i].fields[j].k] # Null
                           /\ \A k \in StandardFields :
                                  args[k] # Null => dict_has(calls[i].fields, k)
                  /\ calls[i].step = "labels"
                        => /\ args.labels # Null
                           /\ calls[i].fields = <<[k |-> "labels", v |-> args.labels]>>
                  /\ calls[i].step = "comment"
                        => /\ args.comment # Null
                           /\ calls[i].call = "add_comment"
                           /\ calls[i].fields[1].v = args.comment
                  /\ calls[i].step = "custom"
                        => /\ args.custom_fields # Null
                           /\ calls[i].fields = args.custom_fields.items
            /\ \A i, j \in 1..Len(calls) :
                  i < j => StepRank(calls[i].step) < StepRank(calls[j].step)
            /\ (Len(calls) > 0 /\ calls[Len(calls)].step = opIn.fail)
                  => /\ opOut.result.shape = "error"
                     /\ \A i \in 1..(Len(calls) - 1) : Applied(calls[i])
            /\ (opIn.fail = "refetch" /\ opOut.fetches = 2)
                  => /\ opOut.result.shape = "error"
                     /\ \A i \in 1..Len(calls) : Applied(calls[i])
            /\ (\A k \in DOMAIN args : args[k] = Null) => calls = << >>

\* The custom fields call fails after the standard fields, the labels and
\* the comment went through: the caller gets the error result and the issue
\* keeps the new summary, labels and comment.
C30_Witness ==
    /\ opOut # NoOp
    /\ opIn.fail = "custom"
    /\ Len(opOut.calls) = 4
    /\ opOut.calls[4].step = "custom"
    /\ opOut.result.shape = "error"
    /\ opIn.args.summary = Str("New title")
    /\ dict_get(opOut.remote.fields, "summary") = Str("New title")
    /\ dict_get(opOut.remote.fields, "labels") = opIn.args.labels
    /\ opOut.remote.comments = <<opIn.args.comment>>
    /\ ~dict_has(opOut.remote.fields, "customfield_10001")

====
